---- MODULE Spec2Model ----
(***************************************************************************)
(* Model of the hierarchy generator core (app.py): the shape canonicalizer *)
(* convert_to_wildcard_format, the depth flattener                         *)
(* flatten_hierarchy_post_process / extract_all_leaves, the bottom-up      *)
(* merger generate_imagenet_wnid_hierarchy, the top-down expander          *)
(* build_hierarchy_tree_recursive and generate_coco_hierarchy.             *)
(*                                                                         *)
(* Python values are records [t, s, keys, items]:                          *)
(*   None        t = "none"                                                *)
(*   str         t = "str",  s = the string                                *)
(*   list        t = "list", items = the elements                          *)
(*   dict        t = "dict", keys = the keys in insertion order,           *)
(*                           items = the values, items[i] under keys[i]    *)
(* Strings are modelled as naturals; the numeric order stands for Python's *)
(* string order, which is all that sorted() uses of them.                  *)
(***************************************************************************)
EXTENDS Integers, Sequences, FiniteSets, TLC

VARIABLES
    pc,                  \* position in the handler
    data,                \* h, the structure handed to the canonicalizer
    result,              \* convert_to_wildcard_format(h)
    max_depth,
    \* bottom-up merger
    wnids, idx, tree, max_hypernym_depth,
    \* lexical graph read by the top-down expander
    hyponyms,            \* synset -> its hyponyms, in the order hyponyms() returns them
    lemmas,              \* synset -> lemmas()[0].name()
    primary,             \* name -> wn.synsets(name)[0], 0 when there is none
    \* top-down expander
    root_synset,         \* wn.synset(root_str), 0 when the lookup raises
    valid_wnids, strict_filter, blacklist,
    content,             \* build_hierarchy_tree_recursive(root_synset, ...)
    stack,               \* the calls of build_hierarchy_tree_recursive in progress
    \* COCO generator
    categories,          \* the category records of the COCO annotation file
    hierarchy,           \* supercategory -> names, as the loop builds it
    handler,             \* the GUI handler that runs: on_preview or on_save
    mode, strategy, wnid_text,
    wordnet,             \* what ensure_nltk_data finds: loaded, downloads, download_raises
    dataset,             \* whether the COCO / Open Images files can be obtained
    disk,                \* whether save_hierarchy can write the output file
    is_valid, message,   \* the pair returned by validate_inputs
    called,              \* generate_hierarchy was called
    written,             \* save_hierarchy wrote the output file
    status,              \* the status the handler returned
    op, force,           \* the download_utils function called, and its force argument
    files,               \* the paths that exist
    network,             \* whether urlretrieve succeeds
    archive,             \* what the annotations zip holds
    removable,           \* whether os.remove(zip_path) succeeds
    retrievals,          \* calls of urllib.request.urlretrieve
    extractions          \* calls of ZipFile.extractall

wnidVars == <<wnids, idx, tree, max_hypernym_depth>>

graphVars == <<hyponyms, lemmas, primary>>

treeVars == <<root_synset, valid_wnids, strict_filter, blacklist, content, stack>>

cocoVars == <<categories, hierarchy>>

guiVars == <<handler, mode, strategy, wnid_text, wordnet, dataset, disk,
             is_valid, message, called, written, status>>

dlVars == <<op, force, files, network, archive, removable, retrievals, extractions>>

vars == <<pc, data, result, max_depth, wnidVars, graphVars, treeVars, cocoVars, guiVars, dlVars>>

(* ---------------- bounds ---------------- *)

\* number of distinct strings (names) in the model: 1..MaxName
MaxName == 3
\* size (number of dict/list/str/None nodes) of the trees fed to the canonicalizer
MaxSize == 4

\* names occurring on hypernym paths: 1..MaxPathName
MaxPathName == 4
\* number of identifiers handed to the bottom-up merger
MaxWnids == 2
\* largest max_depth argument
MaxDepthArg == 2
\* largest max_hypernym_depth argument
MaxHypernymDepth == 2
\* synsets of the lexical graph under the root: 1..NumSynsets
NumSynsets == 3
\* distinct lemma names of those synsets: 1..MaxLemma
MaxLemma == 2
\* number of category records in the COCO annotation file
MaxCategories == 3
\* number of lines of the text typed into the WNID box
MaxLines == 2

Names == 1..MaxName

\* the max_depth arguments: --depth is any int (type=int), so a negative one
\* can be passed
DepthArgs == (-1)..MaxDepthArg

(* ---------------- Python values ---------------- *)

None == [t |-> "none", s |-> 0, keys |-> <<>>, items |-> <<>>]

Str(n) == [t |-> "str", s |-> n, keys |-> <<>>, items |-> <<>>]

List(xs) == [t |-> "list", s |-> 0, keys |-> <<>>, items |-> xs]

Dict(ks, vs) == [t |-> "dict", s |-> 0, keys |-> ks, items |-> vs]

EmptyDict == Dict(<<>>, <<>>)

\* a list of strings from a sequence of names
StrList(ns) == List([i \in 1..Len(ns) |-> Str(ns[i])])

Range(f) == {f[i] : i \in DOMAIN f}

\* position of key k in the dict d, 0 when absent
RECURSIVE IndexOf(_, _, _)
IndexOf(ks, k, i) ==
    IF i > Len(ks) THEN 0
    ELSE IF ks[i] = k THEN i
    ELSE IndexOf(ks, k, i + 1)

(* ---------------- sorted(), sorted(list(set())) ---------------- *)

RECURSIVE Insert(_, _)
Insert(x, sorted) ==
    IF sorted = <<>> THEN <<x>>
    ELSE IF x <= Head(sorted) THEN <<x>> \o sorted
    ELSE <<Head(sorted)>> \o Insert(x, Tail(sorted))

\* sorted(xs): ascending, keeps duplicates
RECURSIVE Sorted(_)
Sorted(xs) ==
    IF xs = <<>> THEN <<>>
    ELSE Insert(Head(xs), Sorted(Tail(xs)))

\* the ascending enumeration of a set of names
RECURSIVE SetToSorted(_)
SetToSorted(S) ==
    IF S = {} THEN <<>>
    ELSE LET m == CHOOSE x \in S : \A y \in S : x <= y
         IN  <<m>> \o SetToSorted(S \ {m})

\* the names of a list of strings
NamesOf(l) == [i \in 1..Len(l.items) |-> l.items[i].s]

(* ---------------- convert_to_wildcard_format ---------------- *)

is_leaf_content(val) ==
    \/ val = EmptyDict
    \/ val.t = "str"
    \/ val.t = "none"

\* the list sorted with its duplicates kept
sort_only(l) == StrList(Sorted(NamesOf(l)))

\* line 81: sorted(list(set(data)))
dedup_sort(l) == StrList(SetToSorted(Range(NamesOf(l))))

\* line 95: a one-element list whose element equals its key
is_redundant_singleton(k, cv) ==
    /\ cv.t = "list"
    /\ Len(cv.items) = 1
    /\ cv.items[1] = Str(k)

\* lines 89-106: child_is_leaf[k]
child_is_leaf(k, cv) ==
    \/ is_leaf_content(cv)
    \/ is_redundant_singleton(k, cv)

\* lines 89-106: processed_children[k]
processed_child(k, cv) ==
    IF is_leaf_content(cv)
    THEN (IF cv = EmptyDict \/ cv.t = "none" THEN Str(k) ELSE cv)
    ELSE IF is_redundant_singleton(k, cv) THEN cv.items[1]
    ELSE cv

\* all_leaves with the collapse skipped for a single child
all_leaves_not_single(flags) == Len(flags) > 1 /\ \A i \in DOMAIN flags : flags[i]

\* line 111: all(child_is_leaf.values())
all_leaves(flags) == \A i \in DOMAIN flags : flags[i]

\* the values in the order of their keys
leaf_list_unsorted(vals) == StrList([i \in 1..Len(vals) |-> vals[i].s])

\* line 112: sorted(list(processed_children.values()))
leaf_list(vals) == StrList(Sorted([i \in 1..Len(vals) |-> vals[i].s]))

\* lines 116-119: the entry of a mapping that is kept as a mapping
mixed_entry(isleaf, val) == IF isleaf THEN List(<<val>>) ELSE val

RECURSIVE convert_to_wildcard_format(_)
convert_to_wildcard_format(d) ==
    IF is_leaf_content(d) THEN d
    ELSE IF d.t = "list" THEN dedup_sort(d)
    ELSE \* d.t = "dict"
      LET n == Len(d.keys)
          converted == [i \in 1..n |-> convert_to_wildcard_format(d.items[i])]
          isleaf == [i \in 1..n |-> child_is_leaf(d.keys[i], converted[i])]
          processed == [i \in 1..n |-> processed_child(d.keys[i], converted[i])]
      IN  IF n = 0 THEN EmptyDict
          ELSE IF all_leaves(isleaf) THEN leaf_list(processed)
          ELSE Dict(d.keys, [i \in 1..n |-> mixed_entry(isleaf[i], processed[i])])

(* ---------------- extract_all_leaves, flatten_hierarchy_post_process ---------------- *)

RECURSIVE Concat(_)
Concat(seqs) ==
    IF seqs = <<>> THEN <<>> ELSE Head(seqs) \o Concat(Tail(seqs))

\* the leaves as a sequence of names, in the order the code appends them
RECURSIVE extract_all_leaves(_)
extract_all_leaves(d) ==
    IF d.t = "list"
    THEN Concat([i \in 1..Len(d.items) |-> extract_all_leaves(d.items[i])])
    ELSE IF d.t = "dict"
    THEN Concat([i \in 1..Len(d.keys) |->
                   IF d.items[i] = EmptyDict \/ d.items[i].t = "none"
                   THEN <<d.keys[i]>>
                   ELSE extract_all_leaves(d.items[i])])
    ELSE IF d.t = "str" THEN <<d.s>>
    ELSE <<>>

\* the depth test taken one level too late
at_limit_late(current_depth, maxd) == current_depth > maxd

\* line 147: the depth test that triggers flattening
at_limit(current_depth, maxd) == current_depth >= maxd

\* the subtree at the limit kept as it is
subtree_kept(d) == d

\* line 148: return extract_all_leaves(data)
leaves_list(d) == StrList(extract_all_leaves(d))

\* a list or string below the limit replaced by the list of its leaves
untouched_as_leaves(d) == StrList(extract_all_leaves(d))

\* line 158: return data
untouched(d) == d

RECURSIVE flatten_hierarchy_post_process(_, _, _)
flatten_hierarchy_post_process(d, current_depth, maxd) ==
    IF at_limit(current_depth, maxd) THEN leaves_list(d)
    ELSE IF d.t = "dict"
    THEN Dict(d.keys, [i \in 1..Len(d.keys) |->
                 flatten_hierarchy_post_process(d.items[i], current_depth + 1, maxd)])
    ELSE untouched(d)

(* ---------------- the intermediate trees fed to the canonicalizer ---------------- *)

\* The inputs are enumerated as a shape (a value whose strings and keys are
\* all 0) and a labelling of its name slots, in the order of a pre-order walk.

\* the shapes with n nodes, given acc[m] = [trees, dicts] for every size m < n;
\* a dict, list, string or None counts one node
ShapesOfSize(n, acc) ==
    LET dicts ==
          IF n = 1 THEN {EmptyDict}
          ELSE UNION { {Dict(<<0>> \o r.keys, <<v>> \o r.items) :
                           v \in acc[b].trees, r \in acc[n - b].dicts} :
                       b \in 1..(n - 1) }
    IN  [dicts |-> dicts,
         trees |-> dicts
                   \cup (IF n = 1 THEN {None, Str(0)} ELSE {})
                   \cup {StrList([i \in 1..(n - 1) |-> 0])}]

RECURSIVE ShapesBySize(_)
ShapesBySize(acc) ==
    IF Len(acc) >= MaxSize THEN acc
    ELSE ShapesBySize(Append(acc, ShapesOfSize(Len(acc) + 1, acc)))

Shapes ==
    LET acc == ShapesBySize(<<>>)
    IN  UNION {acc[n].trees : n \in 1..MaxSize}

\* the number of keys and strings in v
RECURSIVE Slots(_)
RECURSIVE SlotsUpTo(_, _)
Slots(v) ==
    IF v.t = "str" THEN 1
    ELSE IF v.t = "list" THEN Len(v.items)
    ELSE IF v.t = "dict" THEN SlotsUpTo(v, Len(v.items))
    ELSE 0

\* the slots of the first j entries of the dict v
SlotsUpTo(v, j) ==
    IF j = 0 THEN 0 ELSE SlotsUpTo(v, j - 1) + 1 + Slots(v.items[j])

\* the shape v with its slots filled from lab[off + 1], lab[off + 2], ...
RECURSIVE Fill(_, _, _)
Fill(v, lab, off) ==
    IF v.t = "str" THEN Str(lab[off + 1])
    ELSE IF v.t = "list" THEN StrList([i \in 1..Len(v.items) |-> lab[off + i]])
    ELSE IF v.t = "dict"
    THEN Dict([i \in 1..Len(v.keys) |-> lab[off + SlotsUpTo(v, i - 1) + 1]],
              [i \in 1..Len(v.keys) |-> Fill(v.items[i], lab, off + SlotsUpTo(v, i - 1) + 1)])
    ELSE v

\* the keys of every dict inside v are distinct
RECURSIVE WellKeyed(_)
WellKeyed(v) ==
    /\ \A i, j \in 1..Len(v.keys) : i # j => v.keys[i] # v.keys[j]
    /\ \A i \in 1..Len(v.items) : WellKeyed(v.items[i])

(* ---------------- runs that do not use a part of the state ---------------- *)

NoWnidRun ==
    /\ wnids = <<>>
    /\ idx = 0
    /\ tree = EmptyDict
    /\ max_hypernym_depth = <<>>

NoGraph ==
    /\ hyponyms = <<>>
    /\ lemmas = <<>>
    /\ primary = <<>>

NoTreeRun ==
    /\ root_synset = 0
    /\ valid_wnids = <<>>
    /\ strict_filter = FALSE
    /\ blacklist = FALSE
    /\ content = None
    /\ stack = <<>>

NoCocoRun ==
    /\ categories = <<>>
    /\ hierarchy = EmptyDict

NoGuiRun ==
    /\ handler = ""
    /\ mode = ""
    /\ strategy = ""
    /\ wnid_text = <<>>
    /\ wordnet = "loaded"
    /\ dataset = "ok"
    /\ disk = "ok"
    /\ is_valid = FALSE
    /\ message = ""
    /\ called = FALSE
    /\ written = FALSE
    /\ status = ""

NoDownloadRun ==
    /\ op = ""
    /\ force = FALSE
    /\ files = {}
    /\ network = "ok"
    /\ archive = "holds_json"
    /\ removable = TRUE
    /\ retrievals = 0
    /\ extractions = 0

(* ---------------- canonicalizer runs ---------------- *)

InitConvert ==
    /\ pc = "input"
    /\ NoGuiRun
    /\ NoDownloadRun
    /\ \E shape \in Shapes :
         \E lab \in [1..Slots(shape) -> Names] :
            /\ WellKeyed(Fill(shape, lab, 0))
            /\ data = Fill(shape, lab, 0)
    /\ result = None
    /\ max_depth = 0
    /\ NoWnidRun
    /\ NoGraph
    /\ NoTreeRun
    /\ NoCocoRun

\* handle_*: convert_to_wildcard_format(h)
Convert ==
    /\ pc = "input"
    /\ result' = convert_to_wildcard_format(data)
    /\ pc' = "converted"
    /\ UNCHANGED <<data, max_depth, wnidVars, graphVars, treeVars, cocoVars, guiVars, dlVars>>

\* the canonicalizer applied to its own output
Reconvert ==
    /\ pc = "converted"
    /\ data' = result
    /\ result' = convert_to_wildcard_format(result)
    /\ pc' = "reconverted"
    /\ UNCHANGED <<max_depth, wnidVars, graphVars, treeVars, cocoVars, guiVars, dlVars>>

NextConvert == Convert \/ Reconvert

SpecConvert == InitConvert /\ [][NextConvert]_vars

(* ---------------- generate_imagenet_wnid_hierarchy (bottom-up) ---------------- *)

\* A primary hypernym path is the sequence of the names
\* node.name().split('.')[0] of its synsets, root first.  The lexical graph
\* is acyclic; its names are numbered so that a hypernym precedes its
\* hyponyms.
\* Every path starts at the root synset, name 1.
RECURSIVE IncreasingSeqs(_)
IncreasingSeqs(hi) ==
    IF hi = 1 THEN {<<1>>}
    ELSE IncreasingSeqs(hi - 1) \cup {Append(p, hi) : p \in IncreasingSeqs(hi - 1)}

HypernymPaths == IncreasingSeqs(MaxPathName)

\* An identifier is modelled by what the lexical database answers for it:
\*   "ok"        resolves to a synset whose hypernym_paths()[0] is path
\*   "malformed" shorter than two characters, or int(wnid[1:]) raises
\*   "unknown"   synset_from_pos_and_offset raises
\*   "nopaths"   resolves, but hypernym_paths() is empty
WnidValues ==
    {[kind |-> "ok", path |-> p] : p \in HypernymPaths}
    \cup {[kind |-> k, path |-> <<>>] : k \in {"malformed", "unknown", "nopaths"}}

\* lines 207-214: a synset, or None
get_synset_from_wnid(wnid) ==
    IF wnid.kind \in {"malformed", "unknown"} THEN None
    ELSE [t |-> "synset", s |-> 0, keys |-> <<>>, items |-> wnid.path]

\* line 233: max_hypernym_depth is not None and max_hypernym_depth > 0
\* (Optional[int]: <<>> is None, <<n>> is the integer n)
depth_limit_set(mhd) == mhd # <<>> /\ mhd[1] > 0

\* the slice taken from the front of the path: primary_path[:max_hypernym_depth]
last_items_front(path, n) == SubSeq(path, 1, IF n < Len(path) THEN n ELSE Len(path))

\* line 235: primary_path[-max_hypernym_depth:]
last_items(path, n) ==
    LET start == IF Len(path) - n < 0 THEN 0 ELSE Len(path) - n
    IN  SubSeq(path, start + 1, Len(path))

\* lines 230-237: path_to_use
path_to_use(primary_path, mhd) ==
    IF depth_limit_set(mhd) THEN last_items(primary_path, mhd[1]) ELSE primary_path

\* the membership test always failing: every path element opens a new entry
key_position_never(current_level, node_name) == 0

\* line 242: node_name not in current_level (0), or the position of the key
key_position(current_level, node_name) == IndexOf(current_level.keys, node_name, 1)

\* lines 239-244: walk the path down from current_level, adding missing keys
RECURSIVE insert_path(_, _)
insert_path(current_level, path) ==
    IF path = <<>> THEN current_level
    ELSE LET node_name == Head(path)
             i == key_position(current_level, node_name)
         IN  IF i = 0
             THEN Dict(Append(current_level.keys, node_name),
                       Append(current_level.items, insert_path(EmptyDict, Tail(path))))
             ELSE Dict(current_level.keys,
                       [current_level.items EXCEPT ![i] = insert_path(@, Tail(path))])

OptionalDepths == {<<>>} \cup {<<n>> : n \in 0..MaxHypernymDepth}

InitWnid ==
    /\ pc = "start"
    /\ NoGuiRun
    /\ NoDownloadRun
    /\ \E n \in 0..MaxWnids : wnids \in [1..n -> WnidValues]
    /\ max_depth \in DepthArgs
    /\ max_hypernym_depth \in OptionalDepths
    /\ idx = 1
    /\ tree = EmptyDict
    /\ data = None
    /\ result = None
    /\ NoGraph
    /\ NoTreeRun
    /\ NoCocoRun

\* line 218: if not wnids: return {}
EmptyInput ==
    /\ pc = "start"
    /\ wnids = <<>>
    /\ data' = EmptyDict
    /\ pc' = "input"
    /\ UNCHANGED <<result, max_depth, wnidVars, graphVars, treeVars, cocoVars, guiVars, dlVars>>

\* line 221: tree = {}
StartLoop ==
    /\ pc = "start"
    /\ wnids # <<>>
    /\ pc' = "loop"
    /\ UNCHANGED <<data, result, max_depth, wnidVars, graphVars, treeVars, cocoVars, guiVars, dlVars>>

\* lines 224-227: continue on an identifier without synset or without paths
SkipWnid ==
    /\ pc = "loop"
    /\ idx <= Len(wnids)
    /\ LET synset == get_synset_from_wnid(wnids[idx])
       IN  synset = None \/ synset.items = <<>>
    /\ idx' = idx + 1
    /\ UNCHANGED <<pc, data, result, max_depth, wnids, tree, max_hypernym_depth, graphVars, treeVars, cocoVars, guiVars, dlVars>>

\* lines 229-244: merge the identifier's primary path into the tree
InsertWnid ==
    /\ pc = "loop"
    /\ idx <= Len(wnids)
    /\ LET synset == get_synset_from_wnid(wnids[idx])
       IN  /\ synset # None
           /\ synset.items # <<>>
           /\ tree' = insert_path(tree, path_to_use(synset.items, max_hypernym_depth))
    /\ idx' = idx + 1
    /\ UNCHANGED <<pc, data, result, max_depth, wnids, max_hypernym_depth, graphVars, treeVars, cocoVars, guiVars, dlVars>>

\* line 247: return flatten_hierarchy_post_process(tree, 0, max_depth)
Flatten ==
    /\ pc = "loop"
    /\ idx > Len(wnids)
    /\ data' = flatten_hierarchy_post_process(tree, 0, max_depth)
    /\ pc' = "input"
    /\ UNCHANGED <<result, max_depth, wnidVars, graphVars, treeVars, cocoVars, guiVars, dlVars>>

\* handle_imagenet_wnid: the merger, then the canonicalizer
NextWnid == EmptyInput \/ StartLoop \/ SkipWnid \/ InsertWnid \/ Flatten \/ Convert

SpecWnid == InitWnid /\ [][NextWnid]_vars

\* lines 221-244: the tree after the loop over the identifiers ws
RECURSIVE merged_tree(_, _)
merged_tree(ws, mhd) ==
    IF ws = <<>> THEN EmptyDict
    ELSE LET before == merged_tree(SubSeq(ws, 1, Len(ws) - 1), mhd)
             synset == get_synset_from_wnid(ws[Len(ws)])
         IN  IF synset = None \/ synset.items = <<>>
             THEN before
             ELSE insert_path(before, path_to_use(synset.items, mhd))

\* lines 216-247: the value returned for the identifiers ws
generate_imagenet_wnid_hierarchy(ws, maxd, mhd) ==
    IF ws = <<>> THEN EmptyDict
    ELSE flatten_hierarchy_post_process(merged_tree(ws, mhd), 0, maxd)

(* ---------------- build_hierarchy_tree_recursive (top-down) ---------------- *)

\* The synsets under the root form a tree: synset 1 is the root and every
\* other synset is a hyponym of one synset with a smaller number.  A name
\* stands for lemmas()[0].name() in both spellings (lemma names hold no
\* space, so replace('_', ' ') and replace(' ', '_') undo each other) and
\* for synset.name().split('.')[0].
Synsets == 1..NumSynsets

LemmaNames == 1..MaxLemma

\* a synset that is not under the root
OutsideSynset == NumSynsets + 1

\* lines 26-30: name 1 is one of the category names of the blacklist
ABSTRACT_CATEGORIES == {1}

\* f"{synset.pos()}{synset.offset():08d}": one key per synset
wnid_of(synset) == synset

\* synset.lemmas()[0].name().replace('_', ' ')
display_name(synset) == lemmas[synset]

\* synset.name().split('.')[0]
node_lemma(synset) == lemmas[synset]

\* lines 251-259: the first synset of the word, 0 for None
get_primary_synset(word) == primary[word]

\* `if valid_wnids:` is true of a set that is there and is not empty
\* (Optional[Set]: <<>> is None, <<S>> is the set S)
has_filter(valid) == valid # <<>> /\ valid[1] # {}

\* `is not None` in the place of the truth value
is_not_none(v) == v.t # "none"

\* the truth value Python gives a returned value in `if content:`
Truthy(v) ==
    IF v.t = "none" THEN FALSE
    ELSE IF v.t = "str" THEN TRUE
    ELSE v.items # <<>>

\* d[k] = v
dict_set(d, k, v) ==
    LET i == IndexOf(d.keys, k, 1)
    IN  IF i = 0 THEN Dict(Append(d.keys, k), Append(d.items, v))
        ELSE Dict(d.keys, [d.items EXCEPT ![i] = v])

\* synset.closure(lambda s: s.hyponyms())
RECURSIVE closure(_)
closure(synset) ==
    UNION { {hyponyms[synset][i]} \cup closure(hyponyms[synset][i]) :
            i \in 1..Len(hyponyms[synset]) }

\* every descendant collected, whatever the set holds
all_descendants(synset, valid) ==
    StrList(SetToSorted({display_name(s) : s \in closure(synset)}))

\* lines 261-278
get_all_descendants(synset, valid) ==
    LET kept == {s \in closure(synset) : has_filter(valid) => wnid_of(s) \in valid[1]}
    IN  StrList(SetToSorted({display_name(s) : s \in kept}))

\* the blacklist check skipped for the root
pruned_by_blacklist_below_root(synset, bl) ==
    bl /\ synset # root_synset /\ node_lemma(synset) \in ABSTRACT_CATEGORIES

\* lines 284-287
pruned_by_blacklist(synset, bl) ==
    bl /\ node_lemma(synset) \in ABSTRACT_CATEGORIES

\* the primary-sense check applied to childless nodes only
pruned_by_strict_childless(synset, strict) ==
    /\ strict
    /\ hyponyms[synset] = <<>>
    /\ LET p == get_primary_synset(display_name(synset))
       IN  p # 0 /\ p # synset

\* lines 290-294
pruned_by_strict(synset, strict) ==
    /\ strict
    /\ LET p == get_primary_synset(display_name(synset))
       IN  p # 0 /\ p # synset

\* lines 297-312: the flat list returned at the depth limit
flattened(synset, valid) ==
    LET leaves == get_all_descendants(synset, valid)
    IN  IF leaves.items # <<>> THEN leaves
        ELSE IF has_filter(valid)
             THEN (IF wnid_of(synset) \in valid[1]
                   THEN StrList(<<display_name(synset)>>)
                   ELSE List(<<>>))
             ELSE StrList(<<display_name(synset)>>)

\* the depth test taken one level too late
stop_and_flatten_late(depth, maxd) == depth > maxd

\* line 297: if depth >= max_depth
stop_and_flatten(depth, maxd) == depth >= maxd

\* the node dropped whenever its own key is outside the set
node_result_own_key(child_nodes, synset, valid) ==
    IF has_filter(valid) /\ wnid_of(synset) \notin valid[1] THEN None
    ELSE IF child_nodes.keys = <<>> THEN Str(display_name(synset))
    ELSE child_nodes

\* lines 328-336: the value returned after the loop over the children
node_result(child_nodes, synset, valid) ==
    IF child_nodes.keys = <<>>
    THEN (IF has_filter(valid) /\ wnid_of(synset) \notin valid[1]
          THEN None
          ELSE Str(display_name(synset)))
    ELSE child_nodes

RECURSIVE build_hierarchy_tree_recursive(_, _, _, _, _, _)
RECURSIVE collect_children(_, _, _, _, _, _)

\* lines 316-326: child_nodes after the loop over children
collect_children(children, valid, depth, maxd, strict, bl) ==
    IF children = <<>> THEN EmptyDict
    ELSE LET n == Len(children)
             child == children[n]
             before == collect_children(SubSeq(children, 1, n - 1), valid, depth, maxd, strict, bl)
             child_content == build_hierarchy_tree_recursive(child, valid, depth + 1, maxd, strict, bl)
         IN  IF Truthy(child_content)
             THEN dict_set(before, display_name(child), child_content)
             ELSE before

\* lines 280-336
build_hierarchy_tree_recursive(synset, valid, depth, maxd, strict, bl) ==
    IF pruned_by_blacklist(synset, bl) THEN None
    ELSE IF pruned_by_strict(synset, strict) THEN None
    ELSE IF stop_and_flatten(depth, maxd) THEN flattened(synset, valid)
    ELSE node_result(collect_children(hyponyms[synset], valid, depth, maxd, strict, bl),
                     synset, valid)

\* the answers wn.synsets(name)[0] can give for name n: a synset of that
\* name, or a synset that is not under the root
PrimaryChoices(n) ==
    IF strict_filter
    THEN {s \in Synsets : lemmas[s] = n} \cup {OutsideSynset}
    ELSE {OutsideSynset}

ValidSets ==
    {<<>>} \cup {<<S>> : S \in SUBSET Synsets} \cup {<<{OutsideSynset}>>}

InitTree ==
    /\ pc = "start"
    /\ NoGuiRun
    /\ NoDownloadRun
    /\ data = None
    /\ result = None
    /\ content = None
    /\ stack = <<>>
    /\ NoWnidRun
    /\ NoCocoRun
    /\ \/ /\ root_synset = 0
          /\ max_depth = 0
          /\ NoGraph
          /\ valid_wnids = <<>>
          /\ strict_filter = FALSE
          /\ blacklist = FALSE
       \/ /\ root_synset = 1
          /\ \E hypernym \in [2..NumSynsets -> 1..(NumSynsets - 1)] :
                /\ \A j \in 2..NumSynsets : hypernym[j] < j
                /\ hyponyms = [s \in Synsets |->
                                 SetToSorted({j \in 2..NumSynsets : hypernym[j] = s})]
          /\ lemmas \in [Synsets -> LemmaNames]
          /\ strict_filter \in BOOLEAN
          /\ primary \in [LemmaNames -> Synsets \cup {OutsideSynset}]
          /\ \A n \in LemmaNames : primary[n] \in PrimaryChoices(n)
          /\ valid_wnids \in ValidSets
          /\ blacklist \in BOOLEAN
          /\ max_depth \in DepthArgs

\* lines 344-348: the root cannot be found
RootNotFound ==
    /\ pc = "start"
    /\ root_synset = 0
    /\ data' = EmptyDict
    /\ pc' = "input"
    /\ UNCHANGED <<result, max_depth, wnidVars, graphVars, treeVars, cocoVars, guiVars, dlVars>>

\* line 356
ExpandRoot ==
    /\ pc = "start"
    /\ root_synset # 0
    /\ content' = build_hierarchy_tree_recursive(root_synset, valid_wnids, 0, max_depth,
                                                 strict_filter, blacklist)
    /\ pc' = "expanded"
    /\ UNCHANGED <<data, result, max_depth, wnidVars, graphVars,
                   root_synset, valid_wnids, strict_filter, blacklist, stack, cocoVars, guiVars, dlVars>>

\* the root wrapped whatever its expansion gave
WrapRoot_always ==
    /\ pc = "expanded"
    /\ data' = Dict(<<display_name(root_synset)>>, <<content>>)
    /\ pc' = "input"
    /\ UNCHANGED <<result, max_depth, wnidVars, graphVars, treeVars, cocoVars, guiVars, dlVars>>

\* lines 358-360
WrapRoot ==
    /\ pc = "expanded"
    /\ data' = IF Truthy(content)
               THEN Dict(<<display_name(root_synset)>>, <<content>>)
               ELSE EmptyDict
    /\ pc' = "input"
    /\ UNCHANGED <<result, max_depth, wnidVars, graphVars, treeVars, cocoVars, guiVars, dlVars>>

\* handle_imagenet_tree: the expander, then the canonicalizer
NextTree == RootNotFound \/ ExpandRoot \/ WrapRoot \/ Convert

SpecTree == InitTree /\ [][NextTree]_vars

(* ---------------- build_hierarchy_tree_recursive, call by call ---------------- *)

\* a call that has just been entered
Frame(synset, depth) ==
    [synset |-> synset, depth |-> depth, i |-> 1, child_nodes |-> EmptyDict]

Top == stack[Len(stack)]

\* the runs whose expansion is followed call by call: a root that was found,
\* and a validity set that is absent or holds one key
InitExpand ==
    /\ InitTree
    /\ root_synset # 0
    /\ valid_wnids \in {<<>>} \cup {<<{wnid_of(s)}>> : s \in Synsets}

\* line 356: the call for the root, at depth 0
CallRoot ==
    /\ pc = "start"
    /\ root_synset # 0
    /\ stack' = <<Frame(root_synset, 0)>>
    /\ pc' = "call"
    /\ UNCHANGED <<data, result, max_depth, wnidVars, graphVars,
                   root_synset, valid_wnids, strict_filter, blacklist, content, cocoVars, guiVars, dlVars>>

\* `return v` in the innermost call: the root's value becomes content, any
\* other value goes to the caller's loop (lines 321-326)
Returns(v) ==
    IF Len(stack) = 1
    THEN /\ content' = v
         /\ stack' = <<>>
         /\ pc' = "expanded"
    ELSE LET parent == stack[Len(stack) - 1]
             child_name == display_name(Top.synset)
         IN  /\ stack' = Append(SubSeq(stack, 1, Len(stack) - 2),
                               [parent EXCEPT
                                  !.i = @ + 1,
                                  !.child_nodes = IF Truthy(v)
                                                  THEN dict_set(@, child_name, v)
                                                  ELSE @])
             /\ pc' = "loop"
             /\ UNCHANGED content

\* lines 284-294: the blacklist and the primary-sense check return None
PruneNode ==
    /\ pc = "call"
    /\ pruned_by_blacklist(Top.synset, blacklist) \/ pruned_by_strict(Top.synset, strict_filter)
    /\ Returns(None)
    /\ UNCHANGED <<data, result, max_depth, wnidVars, graphVars,
                   root_synset, valid_wnids, strict_filter, blacklist, cocoVars, guiVars, dlVars>>

\* lines 297-312: at the depth limit the descendants are returned as a list
FlattenNode ==
    /\ pc = "call"
    /\ ~pruned_by_blacklist(Top.synset, blacklist)
    /\ ~pruned_by_strict(Top.synset, strict_filter)
    /\ stop_and_flatten(Top.depth, max_depth)
    /\ Returns(flattened(Top.synset, valid_wnids))
    /\ UNCHANGED <<data, result, max_depth, wnidVars, graphVars,
                   root_synset, valid_wnids, strict_filter, blacklist, cocoVars, guiVars, dlVars>>

\* lines 314-317: below the limit the loop over the children begins
EnterLoop ==
    /\ pc = "call"
    /\ ~pruned_by_blacklist(Top.synset, blacklist)
    /\ ~pruned_by_strict(Top.synset, strict_filter)
    /\ ~stop_and_flatten(Top.depth, max_depth)
    /\ pc' = "loop"
    /\ UNCHANGED <<data, result, max_depth, wnidVars, graphVars, treeVars, cocoVars, guiVars, dlVars>>

\* lines 319-321: the recursive call for the next child, at depth + 1
CallChild ==
    /\ pc = "loop"
    /\ Top.i <= Len(hyponyms[Top.synset])
    /\ stack' = Append(stack, Frame(hyponyms[Top.synset][Top.i], Top.depth + 1))
    /\ pc' = "call"
    /\ UNCHANGED <<data, result, max_depth, wnidVars, graphVars,
                   root_synset, valid_wnids, strict_filter, blacklist, content, cocoVars, guiVars, dlVars>>

\* lines 328-336: after the last child the node returns
ReturnNode ==
    /\ pc = "loop"
    /\ Top.i > Len(hyponyms[Top.synset])
    /\ Returns(node_result(Top.child_nodes, Top.synset, valid_wnids))
    /\ UNCHANGED <<data, result, max_depth, wnidVars, graphVars,
                   root_synset, valid_wnids, strict_filter, blacklist, cocoVars, guiVars, dlVars>>

NextExpand == CallRoot \/ PruneNode \/ FlattenNode \/ EnterLoop \/ CallChild \/ ReturnNode

\* one thread runs the recursion, so a call that can take its next step takes it
SpecExpand == InitExpand /\ [][NextExpand]_vars /\ WF_vars(NextExpand)

(* ---------------- generate_coco_hierarchy ---------------- *)

\* one record of data['categories']
CategoryRecords == [supercategory : Names, name : Names]

\* lines 374-381: the mapping after the loop over the records cats
RECURSIVE coco_groups(_)
coco_groups(cats) ==
    IF cats = <<>> THEN EmptyDict
    ELSE LET before == coco_groups(SubSeq(cats, 1, Len(cats) - 1))
             cat == cats[Len(cats)]
             i == IndexOf(before.keys, cat.supercategory, 1)
             members == IF i = 0 THEN List(<<>>) ELSE before.items[i]
         IN  dict_set(before, cat.supercategory,
                      List(Append(members.items, Str(cat.name))))

InitCoco ==
    /\ pc = "start"
    /\ NoGuiRun
    /\ NoDownloadRun
    /\ \E n \in 0..MaxCategories : categories \in [1..n -> CategoryRecords]
    /\ max_depth \in DepthArgs
    /\ hierarchy = EmptyDict
    /\ data = None
    /\ result = None
    /\ NoWnidRun
    /\ NoGraph
    /\ NoTreeRun

\* lines 374-381
GroupCategories ==
    /\ pc = "start"
    /\ hierarchy' = coco_groups(categories)
    /\ pc' = "grouped"
    /\ UNCHANGED <<data, result, max_depth, wnidVars, graphVars, treeVars, categories, guiVars, dlVars>>

\* line 383: return flatten_hierarchy_post_process(hierarchy, 0, max_depth)
FlattenCoco ==
    /\ pc = "grouped"
    /\ data' = flatten_hierarchy_post_process(hierarchy, 0, max_depth)
    /\ pc' = "input"
    /\ UNCHANGED <<result, max_depth, wnidVars, graphVars, treeVars, cocoVars, guiVars, dlVars>>

\* handle_coco: the generator, then the canonicalizer
NextCoco == GroupCategories \/ FlattenCoco \/ Convert

SpecCoco == InitCoco /\ [][NextCoco]_vars

(* ---------------- flatten_hierarchy_post_process called on its own ---------------- *)

\* test_generic_flattening: any nested structure, any depth argument
InitFlatten ==
    /\ pc = "start"
    /\ NoGuiRun
    /\ NoDownloadRun
    /\ \E shape \in Shapes :
         \E lab \in [1..Slots(shape) -> Names] :
            /\ WellKeyed(Fill(shape, lab, 0))
            /\ data = Fill(shape, lab, 0)
    /\ result = None
    /\ max_depth \in DepthArgs
    /\ NoWnidRun
    /\ NoGraph
    /\ NoTreeRun
    /\ NoCocoRun

\* res = flatten_hierarchy_post_process(data, 0, max_depth)
FlattenData ==
    /\ pc = "start"
    /\ result' = flatten_hierarchy_post_process(data, 0, max_depth)
    /\ pc' = "flattened"
    /\ UNCHANGED <<data, max_depth, wnidVars, graphVars, treeVars, cocoVars, guiVars, dlVars>>

NextFlatten == FlattenData

SpecFlatten == InitFlatten /\ [][NextFlatten]_vars

(* ---------------- app_gradio: validate_inputs, on_preview, on_save ---------------- *)

\* A text is the sequence of its lines; a line is empty, blank or an
\* identifier.  The empty string is the one empty line.
LineValues == {"", " ", "n01440764"}

EmptyText == <<"">>

\* the values the WNID box can hand over: None (<<>>) or a text (<<text>>)
WnidTexts ==
    {<<>>} \cup {<<t>> : t \in UNION {[1..n -> LineValues] : n \in 1..MaxLines}}

\* line.strip()
strip_line(l) == IF l = " " THEN "" ELSE l

RECURSIVE lstrip(_)
lstrip(text) ==
    IF text = <<>> THEN <<>>
    ELSE IF strip_line(Head(text)) = "" THEN lstrip(Tail(text))
    ELSE text

RECURSIVE rstrip(_)
rstrip(text) ==
    IF text = <<>> THEN <<>>
    ELSE IF strip_line(text[Len(text)]) = "" THEN rstrip(SubSeq(text, 1, Len(text) - 1))
    ELSE text

\* text.strip(): the blank lines at both ends go, a text of blank lines
\* becomes the empty string
strip(text) ==
    LET r == rstrip(lstrip(text))
    IN  IF r = <<>> THEN EmptyText ELSE r

\* lines 135, 172: (wnid_text or "").strip()
normalize(t) == strip(IF t = <<>> THEN EmptyText ELSE t[1])

\* lines 70, 108: [line.strip() for line in wnid_text.split('\n') if line.strip()]
wnid_lines(text) ==
    SelectSeq([i \in 1..Len(text) |-> strip_line(text[i])], LAMBDA l : l # "")

Modes == {"ImageNet", "COCO", "Open Images", "Unknown"}

Strategies == {"Custom List", "Recursive (from Root)"}

\* lines 59-83; the text arrives normalized and is normalized again
validate_inputs(m, strat, text) ==
    LET t == strip(text)
    IN  IF m = "ImageNet"
        THEN IF strat = "Custom List"
             THEN IF t = EmptyText
                  THEN [ok |-> FALSE, message |-> "Please enter at least one WNID in the custom list"]
                  ELSE IF wnid_lines(t) = <<>>
                  THEN [ok |-> FALSE, message |-> "No valid WNIDs found"]
                  ELSE [ok |-> TRUE, message |-> "WNIDs ready to process"]
             ELSE [ok |-> TRUE, message |-> "Ready to generate tree"]
        ELSE IF m \in {"COCO", "Open Images"}
        THEN [ok |-> TRUE, message |-> "Ready to generate hierarchy"]
        ELSE [ok |-> FALSE, message |-> "Unknown mode selected"]

\* app.py lines 49-59: ensure_nltk_data returns, or leaves through sys.exit(1)
\* when the download of the WordNet data raises
ensure_nltk_data == IF wordnet = "download_raises" THEN "SystemExit" ELSE "value"

\* lines 98-123: how generate_hierarchy ends: with a value, with an
\* exception, or with SystemExit
generate_hierarchy(m, strat, text) ==
    IF m = "ImageNet"
    THEN IF strat = "Custom List" /\ wnid_lines(strip(text)) = <<>>
         THEN "ValueError"
         ELSE ensure_nltk_data
    ELSE IF m \in {"COCO", "Open Images"}
    THEN (IF dataset = "ok" THEN "value" ELSE "Exception")
    ELSE "ValueError"

InitGui ==
    /\ pc = "start"
    /\ data = None
    /\ result = None
    /\ max_depth = 0
    /\ NoWnidRun
    /\ NoGraph
    /\ NoTreeRun
    /\ NoCocoRun
    /\ NoDownloadRun
    /\ handler \in {"on_preview", "on_save"}
    /\ mode \in Modes
    /\ strategy \in Strategies
    /\ wnid_text \in WnidTexts
    /\ wordnet \in {"loaded", "downloads", "download_raises"}
    /\ dataset \in {"ok", "fails"}
    /\ disk \in {"ok", "fails"}
    /\ is_valid = FALSE
    /\ message = ""
    /\ called = FALSE
    /\ written = FALSE
    /\ status = ""

\* lines 133-141, 170-178: normalize, validate, return the message on rejection
Validate ==
    /\ pc = "start"
    /\ LET v == validate_inputs(mode, strategy, normalize(wnid_text))
       IN  /\ is_valid' = v.ok
           /\ message' = v.message
           /\ status' = IF v.ok THEN status ELSE v.message
           /\ pc' = IF v.ok THEN "validated" ELSE "returned"
    /\ UNCHANGED <<data, result, max_depth, wnidVars, graphVars, treeVars, cocoVars,
                   handler, mode, strategy, wnid_text, wordnet, dataset, disk,
                   called, written, dlVars>>

\* lines 143-147, 185-189 and the except clause: generate_hierarchy and
\* convert_to_wildcard_format; `except Exception` catches an exception and
\* returns the error status, SystemExit is not an Exception and leaves the handler
Generate ==
    /\ pc = "validated"
    /\ called' = TRUE
    /\ LET end == generate_hierarchy(mode, strategy, normalize(wnid_text))
       IN  /\ pc' = IF end = "value" THEN "generated"
                    ELSE IF end = "SystemExit" THEN "raised"
                    ELSE "returned"
           /\ status' = IF end \in {"value", "SystemExit"} THEN status
                        ELSE IF handler = "on_save" THEN "Save failed" ELSE "Generation failed"
    /\ UNCHANGED <<data, result, max_depth, wnidVars, graphVars, treeVars, cocoVars,
                   handler, mode, strategy, wnid_text, wordnet, dataset, disk,
                   is_valid, message, written, dlVars>>

\* lines 149-160: the preview is formatted and returned
Preview ==
    /\ pc = "generated"
    /\ handler = "on_preview"
    /\ status' = "Preview generated successfully"
    /\ pc' = "returned"
    /\ UNCHANGED <<data, result, max_depth, wnidVars, graphVars, treeVars, cocoVars,
                   handler, mode, strategy, wnid_text, wordnet, dataset, disk,
                   is_valid, message, called, written, dlVars>>

\* lines 190-197 and the except clause: save_hierarchy writes the file, or
\* raises and the error status is returned
Save ==
    /\ pc = "generated"
    /\ handler = "on_save"
    /\ written' = (disk = "ok")
    /\ status' = IF disk = "ok" THEN "Successfully saved" ELSE "Save failed"
    /\ pc' = "returned"
    /\ UNCHANGED <<data, result, max_depth, wnidVars, graphVars, treeVars, cocoVars,
                   handler, mode, strategy, wnid_text, wordnet, dataset, disk,
                   is_valid, message, called, dlVars>>

NextGui == Validate \/ Generate \/ Preview \/ Save

SpecGui == InitGui /\ [][NextGui]_vars

(* ---------------- download_utils: download_file, ensure_coco_data ---------------- *)

Paths == {"dest_path", "zip_path", "json_path"}

\* the file is fetched whether it is there or not
never_there(dest_path, f) == FALSE

\* line 21: os.path.exists(dest_path) and not force
already_there(dest_path, f) == dest_path \in files /\ ~f

\* lines 17-35: download_file(url, dest_path, force), going on at `next`
\* when it returns
download_file(dest_path, f, next) ==
    IF already_there(dest_path, f)
    THEN /\ pc' = next
         /\ UNCHANGED <<files, retrievals>>
    ELSE /\ retrievals' = retrievals + 1
         /\ files' = IF network = "ok" THEN files \cup {dest_path} ELSE files
         /\ pc' = IF network = "ok" THEN next ELSE "raised"

InitDownload ==
    /\ pc = "start"
    /\ data = None
    /\ result = None
    /\ max_depth = 0
    /\ NoWnidRun
    /\ NoGraph
    /\ NoTreeRun
    /\ NoCocoRun
    /\ NoGuiRun
    /\ op \in {"download_file", "ensure_coco_data"}
    /\ force \in BOOLEAN
    /\ op = "ensure_coco_data" => ~force
    /\ files \in SUBSET Paths
    /\ network \in {"ok", "fails"}
    /\ archive \in {"holds_json", "lacks_json", "corrupt"}
    /\ removable \in BOOLEAN
    /\ retrievals = 0
    /\ extractions = 0

\* a call of download_file(url, dest_path, force)
DownloadFile ==
    /\ pc = "start"
    /\ op = "download_file"
    /\ download_file("dest_path", force, "returned")
    /\ UNCHANGED <<data, result, max_depth, wnidVars, graphVars, treeVars, cocoVars,
                   guiVars, op, force, network, archive, removable, extractions>>

\* lines 61-62: the annotations are there
CocoCached ==
    /\ pc = "start"
    /\ op = "ensure_coco_data"
    /\ "json_path" \in files
    /\ pc' = "returned"
    /\ UNCHANGED <<data, result, max_depth, wnidVars, graphVars, treeVars, cocoVars,
                   guiVars, dlVars>>

\* lines 64-65: the zip is downloaded unless it is there
CocoDownload ==
    /\ pc = "start"
    /\ op = "ensure_coco_data"
    /\ "json_path" \notin files
    /\ IF "zip_path" \notin files
       THEN download_file("zip_path", FALSE, "unzip")
       ELSE pc' = "unzip" /\ UNCHANGED <<files, retrievals>>
    /\ UNCHANGED <<data, result, max_depth, wnidVars, graphVars, treeVars, cocoVars,
                   guiVars, op, force, network, archive, removable, extractions>>

\* line 67: unzip_file(zip_path, data_dir)
Unzip ==
    /\ pc = "unzip"
    /\ extractions' = extractions + 1
    /\ files' = IF archive = "holds_json" THEN files \cup {"json_path"} ELSE files
    /\ pc' = IF archive = "corrupt" THEN "raised" ELSE "remove"
    /\ UNCHANGED <<data, result, max_depth, wnidVars, graphVars, treeVars, cocoVars,
                   guiVars, op, force, network, archive, removable, retrievals>>

\* lines 70-78: the zip is removed if it can be, then the path is returned
\* if it exists and FileNotFoundError is raised if not
RemoveAndReturn ==
    /\ pc = "remove"
    /\ files' = IF removable THEN files \ {"zip_path"} ELSE files
    /\ pc' = IF "json_path" \in files THEN "returned" ELSE "raised"
    /\ UNCHANGED <<data, result, max_depth, wnidVars, graphVars, treeVars, cocoVars,
                   guiVars, op, force, network, archive, removable, retrievals, extractions>>

NextDownload == DownloadFile \/ CocoCached \/ CocoDownload \/ Unzip \/ RemoveAndReturn

\* one thread runs the call, so a call that can take its next step takes it
SpecDownload == InitDownload /\ [][NextDownload]_vars /\ WF_vars(NextDownload)

(* ---------------- properties of the canonicalizer ---------------- *)

\* the canonical forms of the children of the input mapping
ConvertedChildren == [i \in 1..Len(data.keys) |-> convert_to_wildcard_format(data.items[i])]

\* every child of the input mapping canonicalizes to a leaf
InputAllLeaves ==
    /\ data.t = "dict"
    /\ Len(data.keys) > 0
    /\ \A i \in 1..Len(data.keys) : child_is_leaf(data.keys[i], ConvertedChildren[i])

\* the leaf values of the children of the input mapping
InputLeafValues ==
    {processed_child(data.keys[i], ConvertedChildren[i]) : i \in 1..Len(data.keys)}

IsSortedList(v) ==
    /\ v.t = "list"
    /\ \A i \in 1..Len(v.items) : v.items[i].t = "str"
    /\ \A i, j \in 1..Len(v.items) : i < j => v.items[i].s <= v.items[j].s

NoDuplicates(v) ==
    \A i, j \in 1..Len(v.items) : i # j => v.items[i] # v.items[j]

\* C1: the canonicalizer is idempotent: applied to its own output (held in
\* data after Reconvert) it returns that output unchanged.
C1_Idempotent == pc = "reconverted" => result = data

\* C2: a mapping whose children all canonicalize to leaves becomes a list
\* that is sorted, has no duplicates, and whose elements are exactly the
\* leaf values.
C2_AllLeafCollapse ==
    (pc = "converted" /\ InputAllLeaves) =>
        /\ IsSortedList(result)
        /\ NoDuplicates(result)
        /\ Range(result.items) = InputLeafValues

\* C3: a mapping with at least one leaf child and at least one subtree child
\* becomes a list holding each leaf child as its bare name and each subtree
\* child as a one-key map from its name to its canonical form.
C3_MixedParentIsList ==
    (/\ pc = "converted"
     /\ data.t = "dict"
     /\ \E i \in 1..Len(data.keys) : child_is_leaf(data.keys[i], ConvertedChildren[i])
     /\ \E i \in 1..Len(data.keys) : ~child_is_leaf(data.keys[i], ConvertedChildren[i]))
    => /\ result.t = "list"
       /\ \A i \in 1..Len(data.keys) :
            IF child_is_leaf(data.keys[i], ConvertedChildren[i])
            THEN processed_child(data.keys[i], ConvertedChildren[i]) \in Range(result.items)
            ELSE Dict(<<data.keys[i]>>, <<ConvertedChildren[i]>>) \in Range(result.items)

\* some mapping inside v has an entry name: [name]
RECURSIVE HasRedundantEntry(_)
HasRedundantEntry(v) ==
    \E i \in 1..Len(v.items) :
        \/ v.t = "dict" /\ is_redundant_singleton(v.keys[i], v.items[i])
        \/ HasRedundantEntry(v.items[i])

\* C4: no mapping at any level of the output has an entry whose value is the
\* one-element list holding the entry's own key.
C4_NoRedundantSingleton == pc = "converted" => ~HasRedundantEntry(result)

\* some non-empty mapping inside v has only leaf children
RECURSIVE HasAllLeafMapping(_)
HasAllLeafMapping(v) ==
    \/ /\ v.t = "dict"
       /\ Len(v.keys) > 0
       /\ \A i \in 1..Len(v.keys) : child_is_leaf(v.keys[i], v.items[i])
    \/ \E i \in 1..Len(v.items) : HasAllLeafMapping(v.items[i])

\* C5: no mapping at any level of the output has only leaf children, and an
\* input mapping whose children all canonicalize to leaves is emitted as a
\* list.
C5_CanonicalShape ==
    pc = "converted" =>
        /\ ~HasAllLeafMapping(result)
        /\ InputAllLeaves => result.t = "list"

\* a nested all-leaf mapping was emitted as a (longer) list inside a mapping
C5_Witness ==
    /\ pc = "converted"
    /\ result.t = "dict"
    /\ \E i \in 1..Len(data.keys) :
         /\ data.items[i].t = "dict"
         /\ Len(data.items[i].keys) > 1
         /\ result.items[i].t = "list"
         /\ Len(result.items[i].items) > 1

(* ---------------- properties of the bottom-up merger and the flattener ---------------- *)

Min(a, b) == IF a <= b THEN a ELSE b

\* the key sequences leading from the top level of d to each of its nodes
RECURSIVE PathsOf(_)
PathsOf(d) ==
    UNION { {<<d.keys[i]>>} \cup {<<d.keys[i]>> \o q : q \in PathsOf(d.items[i])} :
            i \in 1..Len(d.keys) }

Prefixes(p) == {SubSeq(p, 1, k) : k \in 1..Len(p)}

\* no mapping inside d holds the same key twice
RECURSIVE UniqueKeys(_)
UniqueKeys(d) ==
    /\ \A i, j \in 1..Len(d.keys) : i # j => d.keys[i] # d.keys[j]
    /\ \A i \in 1..Len(d.items) : UniqueKeys(d.items[i])

\* the value found by following the keys of p down from d
RECURSIVE ValueAt(_, _)
ValueAt(d, p) ==
    IF p = <<>> THEN d
    ELSE ValueAt(d.items[CHOOSE i \in 1..Len(d.keys) : d.keys[i] = Head(p)], Tail(p))

RECURSIVE Height(_)
Height(d) ==
    IF d.t # "dict" \/ d.keys = <<>> THEN 0
    ELSE LET hs == {Height(d.items[i]) : i \in 1..Len(d.items)}
         IN  1 + CHOOSE h \in hs : \A g \in hs : g <= h

\* the identifiers already handled by the loop that resolved to a path
Handled == {j \in 1..Len(wnids) : j < idx /\ wnids[j].kind = "ok"}

\* the paths the loop has merged so far
InsertedPaths == {path_to_use(wnids[j].path, max_hypernym_depth) : j \in Handled}

\* the one identifier of the run has a four-name path a, b, c, d, inserted whole
SingleChain ==
    /\ Len(wnids) = 1
    /\ wnids[1].kind = "ok"
    /\ Len(wnids[1].path) = 4
    /\ path_to_use(wnids[1].path, max_hypernym_depth) = wnids[1].path

RECURSIVE NoDuplicateLists(_)
NoDuplicateLists(v) ==
    /\ v.t = "list" => NoDuplicates(v)
    /\ \A i \in 1..Len(v.items) : NoDuplicateLists(v.items[i])

\* C7: the flat list that replaces a subtree at currentDepth >= maxDepth
\* holds each leaf name at most once.
C7_FlatListDeduplicated ==
    (pc = "input" /\ wnids # <<>>) => NoDuplicateLists(data)

\* C8: the merged tree has one node per shared prefix: no level holds a name
\* twice, its nodes are exactly the prefixes of the merged paths, the
\* terminal of a path that no other path extends holds the empty marker, and
\* the paths [entity, animal, dog], [entity, animal, cat] give
\* entity -> animal -> {dog, cat}.
C8_PathMerge ==
    /\ UniqueKeys(tree)
    /\ PathsOf(tree) = UNION {Prefixes(p) : p \in InsertedPaths}
    /\ \A p \in InsertedPaths :
         (\A q \in InsertedPaths : p \in Prefixes(q) => q = p) => ValueAt(tree, p) = EmptyDict
    /\ (/\ Len(wnids) = 2
        /\ idx = 3
        /\ InsertedPaths = {<<1, 2, 3>>, <<1, 2, 4>>}
        /\ wnids[1].path = <<1, 2, 3>>)
       => tree = Dict(<<1>>, <<Dict(<<2>>, <<Dict(<<3, 4>>, <<EmptyDict, EmptyDict>>)>>)>>)

C8_Witness ==
    /\ pc = "loop"
    /\ idx = 3
    /\ wnids[1].path = <<1, 2, 3>>
    /\ wnids[2].path = <<1, 2, 4>>
    /\ tree = Dict(<<1>>, <<Dict(<<2>>, <<Dict(<<3, 4>>, <<EmptyDict, EmptyDict>>)>>)>>)

\* the part of a primary path that ancestorDepthLimit N keeps
ExpectedSuffix(p) ==
    IF max_hypernym_depth # <<>> /\ max_hypernym_depth[1] > 0
    THEN LET k == Min(max_hypernym_depth[1], Len(p))
         IN  [i \in 1..k |-> p[Len(p) - k + i]]
    ELSE p

\* C9: with ancestorDepthLimit N set and positive only the trailing
\* min(N, length) names of each primary path are inserted and the merged
\* tree has height at most N; with N unset or 0 the full path is inserted.
C9_DepthTruncation ==
    /\ PathsOf(tree) = UNION {Prefixes(ExpectedSuffix(wnids[j].path)) : j \in Handled}
    /\ (max_hypernym_depth # <<>> /\ max_hypernym_depth[1] > 0)
          => Height(tree) <= max_hypernym_depth[1]

\* N = 2 on [a, b, c, d]: only c and d were inserted
C9_Witness ==
    /\ max_hypernym_depth = <<2>>
    /\ idx = 2
    /\ wnids[1].path = <<1, 2, 3, 4>>
    /\ tree = Dict(<<3>>, <<Dict(<<4>>, <<EmptyDict>>)>>)

(* ---------------- properties of the top-down expander ---------------- *)

\* the value the expander gives synset s at depth d under the chosen filters
Built(s, d) ==
    build_hierarchy_tree_recursive(s, valid_wnids, d, max_depth, strict_filter, blacklist)

\* s reaches the loop over its children at depth d
Expands(s, d) ==
    /\ ~pruned_by_blacklist(s, blacklist)
    /\ ~pruned_by_strict(s, strict_filter)
    /\ d < max_depth

\* the children of s whose result at depth d + 1 is not empty
YieldingChildren(s, d) ==
    {c \in Range(hyponyms[s]) : Truthy(Built(c, d + 1))}

\* root -> child where the child's key is the only key of the set and
\* neither node is dropped by the blacklist or the primary-sense check
RootChildExample ==
    /\ root_synset = 1
    /\ 2 \in Range(hyponyms[1])
    /\ valid_wnids = <<{wnid_of(2)}>>
    /\ \A s \in {1, 2} : ~pruned_by_blacklist(s, blacklist) /\ ~pruned_by_strict(s, strict_filter)

\* a node that is expanded and whose own key is outside the set is retained
\* exactly when at least one of its children yields a non-empty result, and
\* it is then the mapping of those children; for root -> child with only the
\* child's key in the set the expander's result keeps both the root and the
\* child.  `restricts` says which values of valid_wnids count as a set.
KeepsAncestors(restricts) ==
    /\ (pc = "expanded" /\ restricts) =>
          \A s \in Synsets : \A d \in 0..(max_depth - 1) :
             (Expands(s, d) /\ wnid_of(s) \notin valid_wnids[1]) =>
                /\ Truthy(Built(s, d)) <=> YieldingChildren(s, d) # {}
                /\ Truthy(Built(s, d)) =>
                      /\ Built(s, d).t = "dict"
                      /\ Range(Built(s, d).keys) = {display_name(c) : c \in YieldingChildren(s, d)}
    /\ (pc = "expanded" /\ RootChildExample) =>
          /\ max_depth >= 1 => content.t = "dict" /\ content.keys = <<display_name(2)>>
          /\ max_depth = 0 => content = StrList(<<display_name(2)>>)
    /\ (pc = "input" /\ RootChildExample) =>
          /\ data.keys = <<display_name(1)>>
          /\ data.items[1] = content

\* the statement of C10 for the sets the code takes for a set (not empty)
NonEmptySetKeepsAncestors == KeepsAncestors(has_filter(valid_wnids))

\* C10: with a ValiditySet (any set that is supplied), a node that is
\* expanded and whose own key is outside the set is retained exactly when at
\* least one of its children yields a non-empty result; for root -> child
\* with only the child's key in the set the result keeps both root and child.
C10_ValidityKeepsAncestors == KeepsAncestors(valid_wnids # <<>>)

\* the root's key is outside the set, its child's key is in it, and the
\* expander returned the root as the mapping that holds the child
C10_Witness ==
    /\ pc = "input"
    /\ RootChildExample
    /\ max_depth >= 1
    /\ data = Dict(<<display_name(1)>>, <<Dict(<<display_name(2)>>, <<Str(display_name(2))>>)>>)

\* the keys of the root and of all its descendants
KeysUnderRoot == {wnid_of(s) : s \in {root_synset} \cup closure(root_synset)}

\* C11: a ValiditySet that is supplied (not null) and holds the key of
\* neither the root nor any descendant makes generate_imagenet_tree_hierarchy
\* return the empty structure, for every maxDepth >= 0.
C11_NoMatchingKeyEmpty ==
    (/\ pc = "input"
     /\ root_synset # 0
     /\ max_depth >= 0
     /\ valid_wnids # <<>>
     /\ valid_wnids[1] \cap KeysUnderRoot = {})
    => data = EmptyDict

\* the depths at which a node can be handed to the expander
Depths == 0..MaxDepthArg

\* the first-registered entry of the display name of s is another node
SecondarySense(s) ==
    /\ get_primary_synset(display_name(s)) # 0
    /\ get_primary_synset(display_name(s)) # s

\* C12: with strictPrimarySense on, the expander returns None for every node
\* whose name's first-registered entry is a different node, whatever its
\* depth, its children and the ValiditySet; a node that is the first entry
\* for its own name is not dropped by this check (it yields a result unless
\* the blacklist or the ValiditySet drops it).
C12_StrictPrimarySense ==
    (pc = "expanded" /\ strict_filter) =>
        \A s \in Synsets : \A d \in Depths :
            /\ SecondarySense(s) => Built(s, d) = None
            /\ (/\ ~SecondarySense(s)
                /\ ~pruned_by_blacklist(s, blacklist)
                /\ has_filter(valid_wnids) => wnid_of(s) \in valid_wnids[1])
               => Truthy(Built(s, d))

\* the child of the root is a secondary sense with a child of its own: it is
\* dropped and the root is left as a leaf
C12_Witness ==
    /\ pc = "expanded"
    /\ strict_filter
    /\ ~blacklist
    /\ valid_wnids = <<>>
    /\ max_depth = 2
    /\ hyponyms = <<<<2>>, <<3>>, <<>>>>
    /\ ~SecondarySense(1)
    /\ SecondarySense(2)
    /\ ~SecondarySense(3)
    /\ content = Str(display_name(1))

FlattenedAt(s, d) ==
    /\ ~pruned_by_blacklist(s, blacklist)
    /\ ~pruned_by_strict(s, strict_filter)
    /\ d >= max_depth

\* the display names of the transitive descendants of s whose key passes
\* the set; `restricts` says whether valid_wnids counts as a set
PassingNames(s, restricts) ==
    {display_name(c) : c \in {c \in closure(s) : restricts => wnid_of(c) \in valid_wnids[1]}}

\* what C14 says of the value r returned for s at the depth limit
FlatLeaves(s, r, restricts) ==
    IF PassingNames(s, restricts) # {}
    THEN /\ IsSortedList(r)
         /\ NoDuplicates(r)
         /\ Range(NamesOf(r)) = PassingNames(s, restricts)
    ELSE IF restricts /\ wnid_of(s) \notin valid_wnids[1]
         THEN ~Truthy(r)
         ELSE r \in {Str(display_name(s)), StrList(<<display_name(s)>>)}

\* the statement of C14 for the sets the code takes for a set (not empty)
NonEmptySetFlatLeaves ==
    pc = "expanded" =>
        \A s \in Synsets : \A d \in Depths :
            FlattenedAt(s, d) => FlatLeaves(s, Built(s, d), has_filter(valid_wnids))

\* C14: at depth >= maxDepth a node that passed the blacklist and strict
\* checks returns the sorted, duplicate-free list of the display names of
\* all transitive descendants whose key passes the ValiditySet; if that list
\* is empty it returns its own name when there is no ValiditySet or its key
\* is in the set, and an empty (dropped) result otherwise.
C14_FlattenAtDepthLimit ==
    pc = "expanded" =>
        \A s \in Synsets : \A d \in Depths :
            FlattenedAt(s, d) => FlatLeaves(s, Built(s, d), valid_wnids # <<>>)

(* ---------------- unresolvable identifiers ---------------- *)

\* the identifier is malformed or names no synset
Unresolvable(wnid) == wnid.kind \in {"malformed", "unknown"}

\* the list with the unresolvable identifiers removed
WithoutUnresolvable(ws) == SelectSeq(ws, LAMBDA w : ~Unresolvable(w))

\* C15: get_synset_from_wnid gives None for every malformed or unknown
\* identifier, and the bottom-up generator on a list that holds such
\* identifiers returns exactly what it returns for the list without them.
C15_UnresolvableDropped ==
    /\ \A i \in 1..Len(wnids) :
          Unresolvable(wnids[i]) => get_synset_from_wnid(wnids[i]) = None
    /\ (pc = "input" /\ max_depth >= 0) =>
          data = generate_imagenet_wnid_hierarchy(WithoutUnresolvable(wnids),
                                                  max_depth, max_hypernym_depth)

\* the statement of C15 for the lists that keep at least one identifier
\* or are flattened below the top level
UnresolvableDroppedBelowTop ==
    (pc = "input" /\ (WithoutUnresolvable(wnids) # <<>> \/ max_depth >= 1)) =>
          data = generate_imagenet_wnid_hierarchy(WithoutUnresolvable(wnids),
                                                  max_depth, max_hypernym_depth)

\* the stepwise run and the value of the generator agree
RunIsGenerate ==
    pc = "input" =>
        data = generate_imagenet_wnid_hierarchy(wnids, max_depth, max_hypernym_depth)

(* ---------------- the root of the top-down expansion ---------------- *)

C16_WitnessNoRoot ==
    /\ pc = "input"
    /\ root_synset = 0
    /\ data = EmptyDict

(* ---------------- pre-flattened lists ---------------- *)

\* v is a mapping from parent names to plain lists of member strings
IsGroupMapping(v) ==
    /\ v.t = "dict"
    /\ \A i \in 1..Len(v.items) :
          /\ v.items[i].t = "list"
          /\ \A k \in 1..Len(v.items[i].items) : v.items[i].items[k].t = "str"

\* out is the mapping with the keys of v, each key mapped to its own member
\* list, sorted and without duplicates
GroupsPreserved(v, out) ==
    /\ out.t = "dict"
    /\ out.keys = v.keys
    /\ \A i \in 1..Len(v.keys) :
          /\ IsSortedList(out.items[i])
          /\ NoDuplicates(out.items[i])
          /\ Range(NamesOf(out.items[i])) = Range(NamesOf(v.items[i]))

\* every member list of v holds nothing but the name of its own parent
OnlyOwnNames(v) ==
    /\ v.keys # <<>>
    /\ \A i \in 1..Len(v.keys) : Range(NamesOf(v.items[i])) = {v.keys[i]}

\* C17 as stated: for every mapping from parent names to plain lists of
\* member strings the canonicalizer returns a mapping with the same keys,
\* each key mapped to its own member list, sorted and without duplicates.
C17_GroupListsPreserved ==
    (pc = "converted" /\ IsGroupMapping(data)) => GroupsPreserved(data, result)

\* C17 amended: the mapping is returned with the same keys and each member
\* list sorted and without duplicates, unless every member list holds
\* nothing but the name of its own parent: then the mapping collapses to
\* the sorted list of the parent names.
C17_GroupListsPreservedOrCollapsed ==
    (pc = "converted" /\ IsGroupMapping(data)) =>
        IF OnlyOwnNames(data)
        THEN /\ IsSortedList(result)
             /\ Len(result.items) = Len(data.keys)
             /\ Range(NamesOf(result)) = Range(data.keys)
        ELSE GroupsPreserved(data, result)

\* the COCO shape with a group that holds only its own name next to a
\* group with two members, a duplicate among them
C17_Witness ==
    /\ pc = "converted"
    /\ data = Dict(<<1, 2>>, <<StrList(<<1>>), StrList(<<3, 3>>)>>)
    /\ result = Dict(<<1, 2>>, <<StrList(<<1>>), StrList(<<3>>)>>)

(* ---------------- COCO ---------------- *)

\* the names of all category records
CategoryNames == {categories[i].name : i \in 1..Len(categories)}

\* v is a flat list of exactly the category names
FlatCategoryList(v) ==
    /\ v.t = "list"
    /\ \A i \in 1..Len(v.items) : v.items[i].t = "str"
    /\ Range(NamesOf(v)) = CategoryNames

\* C18: the COCO hierarchy generated with Max Depth 1 and canonicalized is
\* a flat list of all category names.
C18_CocoDepthOneFlat ==
    (pc = "converted" /\ max_depth = 1 /\ categories # <<>>) => FlatCategoryList(result)

\* with Max Depth 0 the canonicalized COCO hierarchy is the flat list
CocoDepthZeroFlat ==
    (pc = "converted" /\ max_depth = 0) => FlatCategoryList(result)

(* ---------------- negative depth ---------------- *)

\* C19: a call of the core with a negative maxDepth raises an error instead
\* of returning a result: no run with max_depth < 0 that has identifiers to
\* merge and flatten gets to a returned hierarchy.
C19_NegativeDepthRaises ==
    (max_depth < 0 /\ wnids # <<>>) => pc \notin {"input", "converted"}

\* what the code returns for a negative max_depth is what it returns for 0
NegativeDepthIsZero ==
    (pc = "input" /\ max_depth < 0) =>
        data = generate_imagenet_wnid_hierarchy(wnids, 0, max_hypernym_depth)

(* ---------------- no empty group ---------------- *)

\* no mapping and no list at any level of v is empty
RECURSIVE NoEmptyGroup(_)
NoEmptyGroup(v) ==
    /\ v.t \in {"dict", "list"} => v.items # <<>>
    /\ \A i \in 1..Len(v.items) : NoEmptyGroup(v.items[i])

\* the values by which the expander says that a node is dropped
Dropped(v) == v \in {None, List(<<>>)}

\* C20: a value returned by the expander is either a dropped result or has
\* no empty mapping and no empty list at any level; the generator returns
\* the empty structure or a mapping without an empty mapping or list at any
\* level.  A node whose children all yield nothing is a leaf or is dropped.
C20_NoEmptyGroup ==
    /\ pc = "expanded" =>
          \A s \in Synsets : \A d \in Depths :
              LET r == Built(s, d)
              IN  /\ Dropped(r) \/ NoEmptyGroup(r)
                  /\ (Expands(s, d) /\ r \notin {None, Str(display_name(s))})
                        => \E c \in Range(hyponyms[s]) : ~Dropped(Built(c, d + 1))
    /\ (pc = "input" /\ root_synset # 0) =>
          data = EmptyDict \/ NoEmptyGroup(data)

\* one child of the root is outside the set and yields the empty list at the
\* depth limit, the other is in the set: only the second is in the result
C20_Witness ==
    /\ pc = "input"
    /\ max_depth = 1
    /\ hyponyms = <<<<2, 3>>, <<>>, <<>>>>
    /\ valid_wnids = <<{3}>>
    /\ Built(2, 1) = List(<<>>)
    /\ data = Dict(<<display_name(1)>>,
                   <<Dict(<<display_name(3)>>, <<StrList(<<display_name(3)>>)>>)>>)

(* ---------------- the flattener on its own ---------------- *)

\* C21: a tree whose values all lie at a depth smaller than max_depth comes
\* back from flatten_hierarchy_post_process(T, 0, max_depth) equal to itself,
\* its lists, strings and empty markers included.
C21_IdentityBelowLimit ==
    (pc = "flattened" /\ Height(data) < max_depth) => result = data

\* a group holding a list and a string, all below the limit, was flattened
C21_Witness ==
    /\ pc = "flattened"
    /\ Height(data) < max_depth
    /\ data.t = "dict"
    /\ \E i, j \in 1..Len(data.items) :
          /\ data.items[i].t = "list" /\ data.items[i].items # <<>>
          /\ data.items[j].t = "str"

\* v, found at the given depth, holds no mapping at depth >= maxd and only
\* lists of strings at depth maxd
RECURSIVE DepthBounded(_, _, _)
DepthBounded(v, depth, maxd) ==
    IF depth >= maxd
    THEN v.t = "list" /\ \A i \in 1..Len(v.items) : v.items[i].t = "str"
    ELSE v.t = "dict" =>
           \A i \in 1..Len(v.items) : DepthBounded(v.items[i], depth + 1, maxd)

\* C22: for max_depth >= 0 the result of the flattener holds no mapping at
\* depth >= max_depth, and every value at depth max_depth is a list of strings.
C22_DepthBound ==
    (pc = "flattened" /\ max_depth >= 0) => DepthBounded(result, 0, max_depth)

\* a tree deeper than the limit was flattened into a mapping of lists
C22_Witness ==
    /\ pc = "flattened"
    /\ max_depth = 1
    /\ Height(data) >= 2
    /\ result.t = "dict"
    /\ \E i \in 1..Len(result.items) : Len(result.items[i].items) >= 2

(* ---------------- the loop over the children ---------------- *)

\* the children of s, in the order of hyponyms(), whose result at depth d + 1
\* is not empty
YieldingInOrder(s, d) ==
    SelectSeq(hyponyms[s], LAMBDA c : Truthy(Built(c, d + 1)))

\* the mapping returned for a node expanded below the limit has one entry per
\* yielding child, in the order of hyponyms(), holding that child's result
OneEntryPerChild(s, d) ==
    LET ys == YieldingInOrder(s, d)
    IN  Built(s, d).t = "dict" =>
          /\ Built(s, d).keys = [i \in 1..Len(ys) |-> display_name(ys[i])]
          /\ Built(s, d).items = [i \in 1..Len(ys) |-> Built(ys[i], d + 1)]

\* no two yielding children of s carry the same display name
DistinctChildNames(s, d) ==
    LET ys == YieldingInOrder(s, d)
    IN  \A i, j \in 1..Len(ys) : i # j => display_name(ys[i]) # display_name(ys[j])

DistinctNamesOneEntryPerChild ==
    pc = "expanded" =>
       \A s \in Synsets : \A d \in 0..(max_depth - 1) :
          (Expands(s, d) /\ DistinctChildNames(s, d)) => OneEntryPerChild(s, d)

(* ---------------- terminals and the validity set ---------------- *)

\* the string leaves and the elements of the lists of v, at any depth
RECURSIVE Terminals(_)
Terminals(v) ==
    IF v.t = "str" THEN {v.s}
    ELSE IF v.t = "list" THEN UNION {Terminals(v.items[i]) : i \in 1..Len(v.items)}
    ELSE IF v.t = "dict" THEN UNION {Terminals(v.items[i]) : i \in 1..Len(v.items)}
    ELSE {}

\* the display names of the nodes whose key is in the set
ValidNames == {display_name(s) : s \in {t \in Synsets : wnid_of(t) \in valid_wnids[1]}}

\* C24: with a non-empty ValiditySet every terminal of the top-down result
\* (string leaf or list element, at any depth) is the display name of a node
\* whose key is in the set.
C24_TerminalsValid ==
    has_filter(valid_wnids) =>
       /\ pc = "expanded" => Terminals(content) \subseteq ValidNames
       /\ pc = "input" => Terminals(data) \subseteq ValidNames

\* the result names the root, whose key is outside the set, as a mapping key
\* and a valid node as a terminal, although the root has an invalid descendant
C24_Witness ==
    /\ pc = "input"
    /\ has_filter(valid_wnids)
    /\ wnid_of(root_synset) \notin valid_wnids[1]
    /\ \E s \in closure(root_synset) : wnid_of(s) \notin valid_wnids[1]
    /\ data.t = "dict" /\ data.keys = <<display_name(root_synset)>>
    /\ Terminals(data) # {}

(* ---------------- the recursion of the expander ---------------- *)

\* the calls in progress are nested one depth apart, starting at depth 0
NestedCalls ==
    \A k \in 1..Len(stack) : stack[k].depth = k - 1

\* the mapping levels of v: a list or a string has none
RECURSIVE MappingLevels(_)
MappingLevels(v) ==
    IF v.t # "dict" THEN 0
    ELSE LET hs == {MappingLevels(v.items[i]) : i \in 1..Len(v.items)} \cup {0}
         IN  1 + CHOOSE h \in hs : \A g \in hs : g <= h

\* the value the calls produce is the value of the expander
StepsAgree ==
    pc = "expanded" => content = Built(root_synset, 0)

\* no call has a depth argument above max_depth, and the result nests at
\* most max_depth mappings
DepthWithinLimit ==
    max_depth >= 0 =>
       /\ \A k \in 1..Len(stack) : stack[k].depth <= max_depth
       /\ pc = "expanded" => MappingLevels(content) <= max_depth

\* C25: for every max_depth >= 0 the expander terminates, is never called
\* with a depth argument greater than max_depth, and the mappings nested in
\* its result are at most max_depth levels deep.
C25_BoundedRecursion ==
    /\ [](NestedCalls /\ StepsAgree /\ DepthWithinLimit)
    /\ max_depth >= 0 => <>(pc = "expanded")

\* a call at depth max_depth >= 1 is in progress
C25_Witness ==
    /\ pc = "call"
    /\ max_depth >= 1
    /\ Top.depth = max_depth
    /\ hyponyms[Top.synset] # <<>>

(* ---------------- leaf names through the flattener ---------------- *)

\* the names extract_all_leaves recovers from v
LeafNames(v) == Range(extract_all_leaves(v))

\* some key of v is mapped to an empty list
RECURSIVE HasEmptyList(_)
HasEmptyList(v) ==
    /\ v.t = "dict"
    /\ \E i \in 1..Len(v.items) : v.items[i] = List(<<>>) \/ HasEmptyList(v.items[i])

\* C26: for every merged tree and every max_depth >= 0 the leaf names
\* recoverable from the flattened tree, and from its canonical form, are the
\* leaf names of the merged tree, and no name is mapped to an empty list.
C26_LeafNamesSurvive ==
    max_depth >= 0 =>
       /\ pc = "input" => LeafNames(data) = LeafNames(tree) /\ ~HasEmptyList(data)
       /\ pc = "converted" => LeafNames(result) = LeafNames(tree) /\ ~HasEmptyList(result)

\* the same statement for the runs in which no leaf's empty marker sits at
\* depth max_depth, checked on the flattened tree
MarkerAtLimit ==
    \E p \in PathsOf(tree) : Len(p) = max_depth /\ ValueAt(tree, p) = EmptyDict

LeafNamesSurviveOffLimit ==
    (max_depth >= 0 /\ wnids # <<>> /\ ~MarkerAtLimit /\ pc = "input") =>
        LeafNames(data) = LeafNames(tree) /\ ~HasEmptyList(data)

(* ---------------- the filters and the flat lists ---------------- *)

\* the keys, string leaves and list elements of v, at any depth
RECURSIVE AllNames(_)
AllNames(v) ==
    IF v.t = "str" THEN {v.s}
    ELSE IF v.t = "list" THEN UNION {AllNames(v.items[i]) : i \in 1..Len(v.items)}
    ELSE IF v.t = "dict"
    THEN Range(v.keys) \cup UNION {AllNames(v.items[i]) : i \in 1..Len(v.items)}
    ELSE {}

\* s is dropped by the blacklist or by the primary-sense check
FilteredOut(s) ==
    pruned_by_blacklist(s, blacklist) \/ pruned_by_strict(s, strict_filter)

\* the names of the nodes under the root that pass both filters
PassingFilterNames ==
    {display_name(s) : s \in {t \in {root_synset} \cup closure(root_synset) : ~FilteredOut(t)}}

\* C27: with the blacklist and/or the primary-sense check enabled, every
\* name in the output of generate_imagenet_tree_hierarchy is the name of a
\* node that passes the enabled filters, inside the flat descendant lists of
\* the depth limit as well: a name carried only by filtered nodes is absent.
C27_FiltersAtEveryDepth ==
    (pc = "input" /\ root_synset # 0 /\ (blacklist \/ strict_filter)) =>
        AllNames(data) \subseteq PassingFilterNames

\* the mapping keys of v, at any depth
RECURSIVE AllKeys(_)
AllKeys(v) ==
    IF v.t = "dict"
    THEN Range(v.keys) \cup UNION {AllKeys(v.items[i]) : i \in 1..Len(v.items)}
    ELSE {}

\* the same statement for the mapping keys alone: every node expanded into
\* a mapping entry passed the enabled filters
FiltersOnMappingKeys ==
    (pc = "input" /\ root_synset # 0 /\ (blacklist \/ strict_filter)) =>
        AllKeys(data) \subseteq PassingFilterNames

(* ---------------- the order of the identifiers ---------------- *)

\* v with the keys of every mapping put in increasing order
RECURSIVE SortKeys(_)
SortKeys(v) ==
    IF v.t # "dict" THEN v
    ELSE LET ks == SetToSorted(Range(v.keys))
         IN  Dict(ks, [i \in 1..Len(ks) |->
                         SortKeys(v.items[IndexOf(v.keys, ks[i], 1)])])

\* the permutations of the list ws
Reorderings(ws) ==
    {[i \in 1..Len(ws) |-> ws[f[i]]] :
        f \in {g \in [1..Len(ws) -> 1..Len(ws)] : Range(g) = 1..Len(ws)}}

\* ws with one of its identifiers given once more, before or after the rest
Repetitions(ws) ==
    UNION {{Append(ws, ws[i]), <<ws[i]>> \o ws} : i \in 1..Len(ws)}

\* the lists compared with ws: any other list with the same identifiers is
\* reached from ws by a chain of such steps
Rearrangements(ws) == Reorderings(ws) \cup Repetitions(ws)

\* C28: every permutation of the identifiers and every repetition of
\* identifiers gives, after generate_imagenet_wnid_hierarchy and
\* convert_to_wildcard_format, the same structure up to the order of mapping
\* keys, for every max_depth and max_hypernym_depth.
C28_OrderInsensitive ==
    pc = "converted" =>
       \A ws \in Rearrangements(wnids) :
          SortKeys(convert_to_wildcard_format(
                     generate_imagenet_wnid_hierarchy(ws, max_depth, max_hypernym_depth)))
             = SortKeys(result)

\* two identifiers with different paths were merged and canonicalized into a
\* mapping
C28_Witness ==
    /\ pc = "converted"
    /\ Len(wnids) = 2
    /\ wnids[1].kind = "ok" /\ wnids[2].kind = "ok"
    /\ wnids[1].path # wnids[2].path
    /\ wnids[1].path[Len(wnids[1].path)] > wnids[2].path[Len(wnids[2].path)]
    /\ result.t = "dict"

(* ---------------- the GUI handlers ---------------- *)

\* the WNID box is blank: nothing, or nothing but blank lines
BlankText == normalize(wnid_text) = EmptyText

\* the file is written only by on_save, after the inputs were accepted and
\* generation returned a value; rejected inputs return the validation
\* message without generation or write; blank custom lists are rejected
GatedByValidation ==
    /\ written => handler = "on_save" /\ is_valid /\ called /\ pc = "returned"
    /\ (pc = "returned" /\ ~is_valid) => ~called /\ ~written /\ status = message
    /\ (pc # "start" /\ mode = "ImageNet" /\ strategy = "Custom List" /\ BlankText) =>
          /\ ~is_valid
          /\ message = "Please enter at least one WNID in the custom list"
    /\ handler = "on_preview" => ~written

\* C29: on_save writes only after validate_inputs accepted and generation
\* completed; rejected inputs give the validation message with neither
\* generation nor write; a handler never raises, every exception becomes a
\* returned error status; on_preview does the same without writing.
C29_GatedAndNeverRaises ==
    /\ GatedByValidation
    /\ pc # "raised"

\* with the WordNet data loaded or downloadable no handler raises
NeverRaisesWithWordNet ==
    wordnet # "download_raises" => pc # "raised"

(* ---------------- cached downloads ---------------- *)

\* a step of download_file with the destination there and force false calls
\* no urlretrieve; a step of ensure_coco_data with the annotations there
\* calls neither urlretrieve nor extractall
NoRefetch ==
    /\ (op = "download_file" /\ "dest_path" \in files /\ ~force) =>
          retrievals' = retrievals
    /\ (op = "ensure_coco_data" /\ "json_path" \in files) =>
          retrievals' = retrievals /\ extractions' = extractions

\* C30: download_file retrieves nothing when the destination exists and
\* force is false; ensure_coco_data neither downloads nor extracts when the
\* annotations JSON exists; whenever ensure_coco_data returns, the returned
\* path exists, and a call that does not return raises.
C30_CachedNeverRefetched ==
    /\ [][NoRefetch]_vars
    /\ []((op = "ensure_coco_data" /\ pc = "returned") => "json_path" \in files)
    /\ <>(pc \in {"returned", "raised"})

\* ensure_coco_data returned with the annotations cached: nothing was
\* retrieved or extracted, although the zip was absent
C30_Witness ==
    /\ op = "ensure_coco_data"
    /\ pc = "returned"
    /\ "json_path" \in files
    /\ "zip_path" \notin files
    /\ retrievals = 0
    /\ extractions = 0

====
